---- MODULE Spec2Model ----
(***************************************************************************)
(* Client side of the webhook dashboard: the two log pollers and clearLogs *)
(* (logs script), the component registry, modal forms and settings forms   *)
(* (static/js/dashboard.js) and the manual webhook tester                  *)
(* (test_webhook.ps1).                                                     *)
(*                                                                         *)
(* A log entry is identified by its event_time, a positive integer.  The   *)
(* log container is the sequence of rendered entries, topmost first.       *)
(***************************************************************************)
EXTENDS Integers, Sequences, FiniteSets, Bags, TLC

\* ---------------------------------------------------------------- bounds
MaxAppends == 2
MaxPolls == 2
MaxClears == 1
MaxFetches == 3

\* ------------------------------------------------------ program constants
FullCap == 20
maxLogs == 100

\* JavaScript null
Null == -1

\* sizes of the batches the backend adds to its log
AppendSizes == {1, 101}

VARIABLES
    variant,            \* "full" (getLogData) or "incr" (updateLogs with since)
    serverLog,          \* backend log buffer: entries base+1 .. top
    appends,            \* number of batches the backend has logged
    logContainer,       \* #logContainer children, topmost first
    lastLogTimestamp,   \* high-water mark of the incremental poller
    logReqs,            \* GET /logs requests in flight
    clearReqs,          \* POST /logs/clear requests in flight
    polls,              \* number of GET /logs requests issued so far
    clears,             \* number of clearLogs() calls so far
    timerOn,            \* setInterval has been armed and never cleared
    consoleErrors,      \* number of console.error lines written
    alerts,             \* #alerts children, oldest first
    currentModal,       \* the tracked modal instance, or "null"
    modalShown,         \* #componentModal is on screen
    modalForm,          \* the form inside .modal-body
    actionsTable,       \* rows of #actionsTable
    eventsTable,        \* rows of #eventsTable
    actionSelect,       \* option values of #actionSelect
    eventSelect,        \* option values of #eventSelect
    dashReqs,           \* fetch calls of dashboard.js in flight
    dashCount,          \* number of fetch operations started so far
    pc,                 \* statement of test_webhook.ps1 to run next
    waiting,            \* Invoke-RestMethod has sent and not yet returned
    posted,             \* bodies posted to $WEBHOOK_URL, in order
    results,            \* how each Invoke-RestMethod call ended
    received,           \* bodies the webhook endpoint has received
    host,               \* lines on the console of the script
    slept               \* seconds spent in Start-Sleep

logVars == <<variant, serverLog, appends, logContainer, lastLogTimestamp,
             logReqs, clearReqs, polls, clears, timerOn, consoleErrors>>

dashVars == <<currentModal, modalShown, modalForm, actionsTable, eventsTable,
              actionSelect, eventSelect, dashReqs, dashCount>>

testVars == <<pc, waiting, posted, results, received, host, slept>>

vars == <<logVars, alerts, dashVars, testVars>>

\* ------------------------------------------------------------- helpers
Max(a, b) == IF a >= b THEN a ELSE b
Min(a, b) == IF a <= b THEN a ELSE b

\* requests in flight form a bag: two alike may be under way at once
Add(reqs, r) == reqs (+) SetToBag({r})
Remove(reqs, r) == reqs (-) SetToBag({r})

\* Array.prototype.reverse
Reverse(s) == [i \in 1..Len(s) |-> s[Len(s) + 1 - i]]

\* Array.prototype.slice(0, n)
Slice0(s, n) == SubSeq(s, 1, Min(Len(s), n))

\* the truthiness test of `lastLogTimestamp ? ... : ...`
Truthy(v) == v # Null /\ v # 0

\* showAlert(type, message): append one alert to #alerts
showAlert(al, type, message) == Append(al, [type |-> type, msg |-> message])

\* entries lo+1 .. hi in ascending event_time order
Entries(lo, hi) == [i \in 1..Max(hi - lo, 0) |-> lo + i]

\* body of a GET /logs answer: everything in the buffer, or with `since`
\* only what is later than it
LogsBody(since) ==
    IF since = Null THEN [lo |-> serverLog.base, hi |-> serverLog.top]
    ELSE [lo |-> Max(serverLog.base, since), hi |-> serverLog.top]

\* ------------------------------------------------------ full-refresh poller
\* logs.forEach(log => logContainer.append(logEntry)): the i-th entry of logs
\* becomes the i-th child after those already there
AppendEach(c, logs) ==
    [i \in 1..(Len(c) + Len(logs)) |-> IF i <= Len(c) THEN c[i] ELSE logs[i - Len(c)]]

\* updateLogs(logs): empty the container, append every entry in order
updateLogsFull(logs) == AppendEach(<<>>, logs)

\* getLogData success callback: data.reverse(); updateLogs(data.slice(0, 20))
getLogDataSuccess(data) == updateLogsFull(Slice0(Reverse(data), FullCap))

\* ------------------------------------------------------ incremental poller
\* entries put on top as one block, in response order
PrependEach_Forward(c, logs) == logs \o c

\* logs.forEach(log => logContainer.prepend(createLogEntry(log)))
\* each entry goes above the ones prepended before it, so the i-th child is
\* the i-th entry of logs counted from its end
PrependEach(c, logs) ==
    [i \in 1..(Len(logs) + Len(c)) |->
        IF i <= Len(logs) THEN logs[Len(logs) + 1 - i] ELSE c[i - Len(logs)]]

\* a trim that keeps one entry too many
TrimLogs_OffByOne(c) == SubSeq(c, 1, Min(Len(c), maxLogs + 1))

\* $('.log-entry:gt(' + (maxLogs - 1) + ')').remove()
TrimLogs(c) == SubSeq(c, 1, Min(Len(c), maxLogs))

\* data: lastLogTimestamp ? { since: lastLogTimestamp } : {}
SinceParam(mark) == IF Truthy(mark) THEN mark ELSE Null

\* a mark taken from the first entry of the response
NewMark_First(mark, logs) == IF Len(logs) > 0 THEN logs[1] ELSE mark

\* new high-water mark after a success callback
NewMark(mark, logs) == IF Len(logs) > 0 THEN logs[Len(logs)] ELSE mark

\* new container after a success callback
NewContainer(c, logs) ==
    IF Len(logs) > 0 THEN TrimLogs(PrependEach(c, logs)) ELSE c

\* a GET /logs request as sent; lo and hi hold the answer once it is there
LogReq(since) == [since |-> since, st |-> "sent", lo |-> 0, hi |-> 0]

\* ------------------------------------------------------------------ Init
InitLog ==
    /\ variant \in {"full", "incr"}
    /\ serverLog = [base |-> 0, top |-> 0]
    /\ appends = 0
    /\ logContainer = <<>>
    /\ lastLogTimestamp = Null
    \* "Initial load": one request is issued while the page gets ready
    /\ logReqs = SetToBag({LogReq(Null)})
    /\ clearReqs = EmptyBag
    /\ polls = 1
    /\ clears = 0
    /\ timerOn = TRUE
    /\ consoleErrors = 0

\* ------------------------------------------------------- dashboard data
\* what the user types into #actionName and #eventName
ActionNames == {"MyAction"}
EventNames == {"MyEvent"}

\* error bodies of the backend
ErrorTexts == {"Invalid API key"}

\* elements of the arrays GET /api/actions and GET /api/events answer with;
\* one action lacks linkedEvents, one event is a JSON null
GoodAction == [name |-> "MyAction", hasLinked |-> TRUE, linkedEvents |-> <<"MyEvent">>]
BareAction == [name |-> "Other", hasLinked |-> TRUE, linkedEvents |-> <<>>]
BadAction == [name |-> "Broken", hasLinked |-> FALSE, linkedEvents |-> <<>>]
GoodEvent == [name |-> "MyEvent", key |-> "MyEvent:k1", isNull |-> FALSE]
NullEvent == [name |-> "null", key |-> "null", isNull |-> TRUE]

ActionArrays == {<<>>, <<GoodAction>>, <<BareAction, BadAction>>}
EventArrays == {<<>>, <<GoodEvent>>, <<GoodEvent, NullEvent>>}

\* outcome of fetch(url).then(r => r.json()): the promise is rejected (no
\* response, or a body that is not JSON), or the body parses to something
\* that is not an array ("object") or to an array
Bodies(arrays) ==
    {[kind |-> k, items |-> <<>>] : k \in {"rejected", "object"}}
      \cup {[kind |-> "array", items |-> a] : a \in arrays}

Rejected(b) == b.kind = "rejected"

Placeholder == <<"">>

\* a fetch operation of dashboard.js
Fetch(kind, form, arg) ==
    [kind |-> kind, form |-> form, arg |-> arg, st |-> "sent", text |-> ""]


InitDash ==
    /\ currentModal = "null"
    /\ modalShown = FALSE
    /\ modalForm = "none"
    /\ actionsTable = <<>>
    /\ eventsTable = <<>>
    /\ actionSelect = <<>>
    /\ eventSelect = <<>>
    \* $(document).ready: refreshComponents() is called once
    /\ dashReqs = SetToBag({Fetch("refresh", "none", <<>>)})
    /\ dashCount = 1

\* ----------------------------------------------------- test_webhook.ps1
WEBHOOK_KEY == "WebhookReceived:XXXXX"

buyOrder ==
    [key |-> WEBHOOK_KEY, symbol |-> "BTCUSDT", side |-> "buy",
     amount |-> "0.001", sltp |-> <<>>]
sellOrder ==
    [key |-> WEBHOOK_KEY, symbol |-> "ETHUSDT", side |-> "sell",
     amount |-> "0.1", sltp |-> <<>>]
sltpOrder ==
    [key |-> WEBHOOK_KEY, symbol |-> "BTCUSDT", side |-> "buy",
     amount |-> "0.001", sltp |-> <<43000, 45000>>]

\* the statements of the script, in order
Script ==
    << [op |-> "build", line |-> "Testing Buy Order...", body |-> buyOrder],
       [op |-> "invoke", line |-> "", body |-> buyOrder],
       [op |-> "sleep", line |-> "", body |-> buyOrder],
       [op |-> "build", line |-> "Testing Sell Order...", body |-> sellOrder],
       [op |-> "invoke", line |-> "", body |-> sellOrder],
       [op |-> "sleep", line |-> "", body |-> sellOrder],
       [op |-> "build", line |-> "Testing Order with SL/TP...", body |-> sltpOrder],
       [op |-> "invoke", line |-> "", body |-> sltpOrder] >>

\* position after the last statement
End == Len(Script) + 1

SleepSeconds == 2

InitTest ==
    /\ pc = 1
    /\ waiting = FALSE
    /\ posted = <<>>
    /\ results = <<>>
    /\ received = <<>>
    /\ host = <<>>
    /\ slept = 0

Init ==
    /\ InitLog
    /\ InitDash
    /\ InitTest
    /\ alerts = <<>>

\* --------------------------------------------------------------- backend
\* the backend logs a batch of k further events
ServerAppend(k) ==
    /\ appends < MaxAppends
    /\ appends' = appends + 1
    /\ serverLog' = [serverLog EXCEPT !.top = @ + k]
    /\ UNCHANGED <<variant, logContainer, lastLogTimestamp, logReqs, clearReqs,
                   polls, clears, timerOn, consoleErrors, alerts, dashVars, testVars>>

\* the backend answers a GET /logs request from its buffer
ServerAnswer(r) ==
    /\ r.st = "sent"
    /\ LET b == LogsBody(r.since)
       IN logReqs' = Add(Remove(logReqs, r),
                         [r EXCEPT !.st = "answered", !.lo = b.lo, !.hi = b.hi])
    /\ UNCHANGED <<variant, serverLog, appends, logContainer, lastLogTimestamp,
                   clearReqs, polls, clears, timerOn, consoleErrors, alerts, dashVars, testVars>>

\* the backend handles POST /logs/clear: it drops its buffer and acknowledges
ServerClear(c) ==
    /\ c.st = "sent"
    /\ clearReqs' = Add(Remove(clearReqs, c), [c EXCEPT !.st = "acked"])
    /\ serverLog' = [serverLog EXCEPT !.base = serverLog.top]
    /\ UNCHANGED <<variant, appends, logContainer, lastLogTimestamp, logReqs,
                   polls, clears, timerOn, consoleErrors, alerts, dashVars, testVars>>

\* the backend rejects POST /logs/clear and keeps its buffer
ServerClearFail(c) ==
    /\ c.st = "sent"
    /\ clearReqs' = Add(Remove(clearReqs, c), [c EXCEPT !.st = "failed"])
    /\ UNCHANGED <<variant, serverLog, appends, logContainer, lastLogTimestamp,
                   logReqs, polls, clears, timerOn, consoleErrors, alerts, dashVars, testVars>>

\* ---------------------------------------------------------------- client
\* timer tick of the full-refresh poller: getLogData()
TickFull ==
    /\ variant = "full"
    /\ timerOn
    /\ polls < MaxPolls
    /\ polls' = polls + 1
    /\ logReqs' = Add(logReqs, LogReq(Null))
    /\ UNCHANGED <<variant, serverLog, appends, logContainer, lastLogTimestamp,
                   clearReqs, clears, timerOn, consoleErrors, alerts, dashVars, testVars>>

\* timer tick of the incremental poller: updateLogs()
TickIncr ==
    /\ variant = "incr"
    /\ timerOn
    /\ polls < MaxPolls
    /\ polls' = polls + 1
    /\ logReqs' = Add(logReqs, LogReq(SinceParam(lastLogTimestamp)))
    /\ UNCHANGED <<variant, serverLog, appends, logContainer, lastLogTimestamp,
                   clearReqs, clears, timerOn, consoleErrors, alerts, dashVars, testVars>>

\* success callback of getLogData
LogSuccessFull(r) ==
    /\ variant = "full"
    /\ r.st = "answered"
    /\ logReqs' = Remove(logReqs, r)
    /\ logContainer' = getLogDataSuccess(Entries(r.lo, r.hi))
    /\ UNCHANGED <<variant, serverLog, appends, lastLogTimestamp, clearReqs,
                   polls, clears, timerOn, consoleErrors, alerts, dashVars, testVars>>

\* success callback of updateLogs
LogSuccessIncr(r) ==
    /\ variant = "incr"
    /\ r.st = "answered"
    /\ logReqs' = Remove(logReqs, r)
    /\ lastLogTimestamp' = NewMark(lastLogTimestamp, Entries(r.lo, r.hi))
    /\ logContainer' = NewContainer(logContainer, Entries(r.lo, r.hi))
    /\ UNCHANGED <<variant, serverLog, appends, clearReqs, polls, clears,
                   timerOn, consoleErrors, alerts, dashVars, testVars>>

\* an error callback that also tells the user
LogError_Alert(r) ==
    /\ logReqs' = Remove(logReqs, r)
    /\ consoleErrors' = consoleErrors + 1
    /\ alerts' = showAlert(alerts, "danger", <<"Error fetching logs">>)
    /\ UNCHANGED <<variant, serverLog, appends, logContainer, lastLogTimestamp,
                   clearReqs, polls, clears, timerOn, dashVars, testVars>>

\* error callback of either poller (the request failed in transport or the
\* backend answered with an error): console.error only
LogError(r) ==
    /\ logReqs' = Remove(logReqs, r)
    /\ consoleErrors' = consoleErrors + 1
    /\ UNCHANGED <<variant, serverLog, appends, logContainer, lastLogTimestamp,
                   clearReqs, polls, clears, timerOn, alerts, dashVars, testVars>>

\* window.clearLogs(): POST /logs/clear
clearLogs ==
    /\ variant = "incr"
    /\ clears < MaxClears
    /\ clears' = clears + 1
    /\ clearReqs' = Add(clearReqs, [st |-> "sent"])
    /\ UNCHANGED <<variant, serverLog, appends, logContainer, lastLogTimestamp,
                   logReqs, polls, timerOn, consoleErrors, alerts, dashVars, testVars>>

\* success callback of clearLogs
clearLogsSuccess(c) ==
    /\ c.st = "acked"
    /\ clearReqs' = Remove(clearReqs, c)
    /\ logContainer' = <<>>
    /\ lastLogTimestamp' = Null
    /\ alerts' = showAlert(alerts, "success", <<"Logs cleared successfully">>)
    /\ UNCHANGED <<variant, serverLog, appends, logReqs, polls, clears, timerOn,
                   consoleErrors, dashVars, testVars>>

\* an error callback that clears the page all the same
clearLogsError_Optimistic(c) ==
    /\ clearReqs' = Remove(clearReqs, c)
    /\ logContainer' = <<>>
    /\ lastLogTimestamp' = Null
    /\ alerts' = showAlert(alerts, "danger", <<"Error clearing logs: ", "error">>)
    /\ UNCHANGED <<variant, serverLog, appends, logReqs, polls, clears, timerOn,
                   consoleErrors, dashVars, testVars>>

\* error callback of clearLogs (rejected by the backend, or lost in transport)
clearLogsError(c) ==
    /\ clearReqs' = Remove(clearReqs, c)
    /\ alerts' = showAlert(alerts, "danger", <<"Error clearing logs: ", "error">>)
    /\ UNCHANGED <<variant, serverLog, appends, logContainer, lastLogTimestamp,
                   logReqs, polls, clears, timerOn, consoleErrors, dashVars, testVars>>

NextLog ==
    \/ \E k \in AppendSizes : ServerAppend(k)
    \/ \E r \in BagToSet(logReqs) : ServerAnswer(r)
    \/ \E c \in BagToSet(clearReqs) : ServerClear(c)
    \/ \E c \in BagToSet(clearReqs) : ServerClearFail(c)
    \/ TickFull
    \/ TickIncr
    \/ \E r \in BagToSet(logReqs) : LogSuccessFull(r)
    \/ \E r \in BagToSet(logReqs) : LogSuccessIncr(r)
    \/ \E r \in BagToSet(logReqs) : LogError(r)
    \/ clearLogs
    \/ \E c \in BagToSet(clearReqs) : clearLogsSuccess(c)
    \/ \E c \in BagToSet(clearReqs) : clearLogsError(c)

SpecLog == Init /\ [][NextLog]_vars

\* the cap of the running poller
Cap == IF variant = "full" THEN FullCap ELSE maxLogs

\* C1: the rendered log list never holds more entries than the cap of the
\* poller that fills it: 20 for the full-refresh poller, 100 for the
\* incremental one, whatever the length of the responses.
C1_ListWithinCap == Len(logContainer) <= Cap

\* the incremental poller has rendered a response of more than 100 entries
C1_Witness ==
    /\ variant = "incr"
    /\ lastLogTimestamp > maxLogs
    /\ Len(logContainer) = maxLogs

\* a GET /logs request r whose success callback runs in this step
Succeeds(r) ==
    /\ BagIn(r, logReqs)
    /\ r.st = "answered"
    /\ logReqs' = Remove(logReqs, r)
    /\ consoleErrors' = consoleErrors

\* C2: in the incremental poller a processed response leaves the high-water
\* mark at the event_time of its last element, an empty response leaves it
\* unchanged, and every request issued carries the current mark as `since`
\* (no `since` exactly when the mark is none).
C2_MarkAndSince ==
    [][variant = "incr" =>
        /\ \A r \in BagToSet(logReqs) : Succeeds(r) =>
              LET body == Entries(r.lo, r.hi)
              IN IF body = <<>> THEN lastLogTimestamp' = lastLogTimestamp
                 ELSE lastLogTimestamp' = body[Len(body)]
        /\ \A q \in BagToSet(logReqs') :
              (q.st = "sent" /\ CopiesIn(q, logReqs') > CopiesIn(q, logReqs))
              => q.since = lastLogTimestamp]_vars

\* a request in flight carries the mark a non-empty response has set
C2_Witness ==
    /\ variant = "incr"
    /\ lastLogTimestamp # Null
    /\ \E q \in BagToSet(logReqs) : q.st = "sent" /\ q.since = lastLogTimestamp

SuccessAlert == [type |-> "success", msg |-> <<"Logs cleared successfully">>]
DangerAlert == [type |-> "danger", msg |-> <<"Error clearing logs: ", "error">>]

\* C3: the list is emptied and the mark reset only by the callback of an
\* acknowledged POST /logs/clear; a clear the backend rejects leaves list and
\* mark as they are and adds exactly one danger alert.
C3_ClearOnlyOnAck ==
    [][variant = "incr" =>
        /\ ( \/ logContainer # <<>> /\ logContainer' = <<>>
             \/ lastLogTimestamp # Null /\ lastLogTimestamp' = Null )
           => \E c \in BagToSet(clearReqs) : c.st = "acked" /\ clearReqs' = Remove(clearReqs, c)
        /\ \A c \in BagToSet(clearReqs) :
              (c.st = "acked" /\ clearReqs' = Remove(clearReqs, c)
                 /\ alerts' = Append(alerts, SuccessAlert))
              => logContainer' = <<>> /\ lastLogTimestamp' = Null
        /\ \A c \in BagToSet(clearReqs) :
              (c.st = "failed" /\ clearReqs' = Remove(clearReqs, c))
              => /\ logContainer' = logContainer
                 /\ lastLogTimestamp' = lastLogTimestamp
                 /\ alerts' = Append(alerts, DangerAlert)
        /\ clears' # clears =>
              /\ logContainer' = logContainer
              /\ lastLogTimestamp' = lastLogTimestamp
              /\ alerts' = alerts]_vars

\* a rejected clear has been reported while entries are on the page
C3_Witness ==
    /\ variant = "incr"
    /\ clearReqs = EmptyBag
    /\ alerts = <<DangerAlert>>
    /\ logContainer # <<>>
    /\ lastLogTimestamp # Null

\* the response, last element first
Newest(r, k) == [i \in 1..k |-> r.hi + 1 - i]

\* C5 as stated: after a successful fetch of k entries, k within the cap,
\* the rendered list has exactly k entries, in either poller.
C5_ExactlyK ==
    [][\A r \in BagToSet(logReqs) : (Succeeds(r) /\ r.hi - r.lo <= Cap) =>
          Len(logContainer') = Max(r.hi - r.lo, 0)]_vars

\* C5 amended: after a successful fetch of k entries, k within the cap, the
\* full-refresh poller shows exactly the response reversed; the incremental
\* poller shows the k new entries on top, the last element of the response
\* topmost, above the entries rendered before, the whole cut to 100 entries.
C5_OrderedRender ==
    [][\A r \in BagToSet(logReqs) : (Succeeds(r) /\ r.hi - r.lo <= Cap) =>
          LET k == Max(r.hi - r.lo, 0)
              n == Min(Len(logContainer) + k, maxLogs)
          IN IF variant = "full"
             THEN logContainer' = Newest(r, k)
             ELSE /\ Len(logContainer') = n
                  /\ SubSeq(logContainer', 1, k) = Newest(r, k)
                  /\ SubSeq(logContainer', k + 1, n) = SubSeq(logContainer, 1, n - k)]_vars

\* the incremental poller has put a later entry above an earlier one and no
\* request is left in flight
C5_Witness ==
    /\ variant = "incr"
    /\ logReqs = EmptyBag
    /\ consoleErrors = 0
    /\ logContainer = <<2, 1>>
    /\ lastLogTimestamp = 2

\* C9: a failed log fetch leaves the list and the mark alone, adds no alert,
\* issues no request, and leaves the timer armed.
C9_FailedFetchIsSilent ==
    [][consoleErrors' # consoleErrors =>
          /\ logContainer' = logContainer
          /\ lastLogTimestamp' = lastLogTimestamp
          /\ alerts' = alerts
          /\ logReqs' \sqsubseteq logReqs
          /\ polls' = polls
          /\ timerOn' = TRUE]_vars

\* a fetch has failed while entries were on the page
C9_Witness ==
    /\ consoleErrors > 0
    /\ logContainer # <<>>

\* no entry is on the page twice
NoDuplicate(c) == \A i, j \in 1..Len(c) : c[i] = c[j] => i = j

\* C10: in the incremental poller the mark never moves to an earlier
\* event_time (a successful clearLogs apart), and no entry is rendered twice.
C10_MarkMonotone ==
    [][variant = "incr" =>
        /\ (lastLogTimestamp # Null /\ lastLogTimestamp' # Null)
             => lastLogTimestamp' >= lastLogTimestamp
        /\ NoDuplicate(logContainer')]_vars

\* ------------------------------------------------------------- dashboard
\* one row of #actionsTable: name, `linkedEvents.join(', ') || 'None'`
ActionRow(item) ==
    [name |-> item.name,
     linked |-> IF item.linkedEvents = <<>> THEN <<"None">> ELSE item.linkedEvents]

\* one row of #eventsTable: name, key
EventRow(item) == [name |-> item.name, key |-> item.key]

\* index of the first element on which the forEach callback throws
FirstBad(throws) ==
    LET bad == {i \in 1..Len(throws) : throws[i]}
    IN IF bad = {} THEN Len(throws) + 1
       ELSE CHOOSE i \in bad : \A j \in bad : i <= j

\* `action.linkedEvents.join` throws when linkedEvents is missing
NoLinked(items) == [i \in 1..Len(items) |-> ~items[i].hasLinked]
\* `event.name` throws on null
IsNull(items) == [i \in 1..Len(items) |-> items[i].isNull]

\* updateActionsTable(actions): tbody.empty(), then one row per element;
\* forEach throws on a value that is no array, the row template throws on an
\* element without linkedEvents
updateActionsTable(body) ==
    IF body.kind # "array" THEN [rows |-> <<>>, threw |-> TRUE]
    ELSE LET f == FirstBad(NoLinked(body.items))
         IN [rows |-> [i \in 1..(f - 1) |-> ActionRow(body.items[i])],
             threw |-> f <= Len(body.items)]

\* updateEventsTable(events): the same for #eventsTable; the row template
\* throws on a null element
updateEventsTable(body) ==
    IF body.kind # "array" THEN [rows |-> <<>>, threw |-> TRUE]
    ELSE LET f == FirstBad(IsNull(body.items))
         IN [rows |-> [i \in 1..(f - 1) |-> EventRow(body.items[i])],
             threw |-> f <= Len(body.items)]

\* showModal(title, content)
showModal(form) ==
    /\ modalForm' = form
    /\ currentModal' = "modal"
    /\ modalShown' = TRUE

\* closeModal(): hide the tracked modal, if there is one
closeModal == modalShown' = (IF currentModal # "null" THEN FALSE ELSE modalShown)

\* createAction() and createEvent(): show the form
OpenCreate(form) ==
    /\ showModal(form)
    /\ actionSelect' = <<>>
    /\ eventSelect' = <<>>
    /\ UNCHANGED <<testVars, logVars, alerts, actionsTable, eventsTable, dashReqs, dashCount>>

\* linkActionEvent(): show the form and call loadComponents()
linkActionEvent ==
    /\ dashCount < MaxFetches
    /\ showModal("linkForm")
    /\ actionSelect' = Placeholder
    /\ eventSelect' = Placeholder
    /\ dashCount' = dashCount + 1
    /\ dashReqs' = Add(dashReqs, Fetch("load", "none", <<>>))
    /\ UNCHANGED <<testVars, logVars, alerts, actionsTable, eventsTable>>

\* submit of #createActionForm or #createEventForm: POST {name}
SubmitCreate(form, name) ==
    /\ dashCount < MaxFetches
    /\ modalShown
    /\ modalForm = form
    /\ dashCount' = dashCount + 1
    /\ dashReqs' = Add(dashReqs, Fetch("post", form, <<name>>))
    /\ UNCHANGED <<testVars, logVars, alerts, currentModal, modalShown, modalForm,
                   actionsTable, eventsTable, actionSelect, eventSelect>>

\* submit of #linkForm: POST {action, event}; both selects are `required`
SubmitLink(i, j) ==
    /\ dashCount < MaxFetches
    /\ modalShown
    /\ modalForm = "linkForm"
    /\ actionSelect[i] # ""
    /\ eventSelect[j] # ""
    /\ dashCount' = dashCount + 1
    /\ dashReqs' = Add(dashReqs, Fetch("post", "linkForm", <<actionSelect[i], eventSelect[j]>>))
    /\ UNCHANGED <<testVars, logVars, alerts, currentModal, modalShown, modalForm,
                   actionsTable, eventsTable, actionSelect, eventSelect>>

\* submit of #apiForm or #riskForm
SubmitSettings(form) ==
    /\ dashCount < MaxFetches
    /\ dashCount' = dashCount + 1
    /\ dashReqs' = Add(dashReqs, Fetch("settings", form, <<>>))
    /\ UNCHANGED <<testVars, logVars, alerts, currentModal, modalShown, modalForm,
                   actionsTable, eventsTable, actionSelect, eventSelect>>

\* setInterval(refreshComponents, 30000)
RefreshTick ==
    /\ dashCount < MaxFetches
    /\ dashCount' = dashCount + 1
    /\ dashReqs' = Add(dashReqs, Fetch("refresh", "none", <<>>))
    /\ UNCHANGED <<testVars, logVars, alerts, currentModal, modalShown, modalForm,
                   actionsTable, eventsTable, actionSelect, eventSelect>>

\* the network settles a POST: 2xx, non-2xx with a text body, or no response
RespondPost(r, st, text) ==
    /\ r.kind \in {"post", "settings"}
    /\ r.st = "sent"
    /\ dashReqs' = Add(Remove(dashReqs, r), [r EXCEPT !.st = st, !.text = text])
    /\ UNCHANGED <<testVars, logVars, alerts, currentModal, modalShown, modalForm,
                   actionsTable, eventsTable, actionSelect, eventSelect, dashCount>>

\* text of the success alert of a modal form
CreatedMsg(r) ==
    IF r.form = "createActionForm" THEN <<"Action ", r.arg[1], " created successfully!">>
    ELSE IF r.form = "createEventForm" THEN <<"Event ", r.arg[1], " created successfully!">>
    ELSE <<"Components linked successfully!">>

\* text of the danger alert of a form; error.message follows the colon
FailedMsg(r) ==
    LET what == IF r.form = "createActionForm" THEN "Error creating action: "
                ELSE IF r.form = "createEventForm" THEN "Error creating event: "
                ELSE IF r.form = "linkForm" THEN "Error linking components: "
                ELSE IF r.form = "apiForm" THEN "Error updating Binance settings: "
                ELSE "Error updating risk settings: "
    IN <<what, r.text>>

\* text of the success alert of a settings form
UpdatedMsg(r) ==
    IF r.form = "apiForm" THEN <<"Binance settings updated successfully!">>
    ELSE <<"Risk settings updated successfully!">>

\* a modal submit handler that refreshes and closes whatever the answer was
ModalSubmitDone_Always(r) ==
    /\ r.kind = "post"
    /\ r.st # "sent"
    /\ alerts' = IF r.st = "ok" THEN showAlert(alerts, "success", CreatedMsg(r))
                 ELSE showAlert(alerts, "danger", FailedMsg(r))
    /\ dashReqs' = Add(Remove(dashReqs, r), Fetch("refresh", "none", <<>>))
    /\ closeModal
    /\ UNCHANGED <<testVars, logVars, currentModal, modalForm, actionsTable, eventsTable,
                   actionSelect, eventSelect, dashCount>>

\* rest of a modal submit handler after `await fetch(...)`: on response.ok
\* showAlert, refreshComponents(), closeModal(); else the catch block
ModalSubmitDone(r) ==
    /\ r.kind = "post"
    /\ r.st # "sent"
    /\ IF r.st = "ok"
       THEN /\ alerts' = showAlert(alerts, "success", CreatedMsg(r))
            /\ dashReqs' = Add(Remove(dashReqs, r), Fetch("refresh", "none", <<>>))
            /\ closeModal
       ELSE /\ alerts' = showAlert(alerts, "danger", FailedMsg(r))
            /\ dashReqs' = Remove(dashReqs, r)
            /\ UNCHANGED modalShown
    /\ UNCHANGED <<testVars, logVars, currentModal, modalForm, actionsTable, eventsTable,
                   actionSelect, eventSelect, dashCount>>

\* a settings handler whose danger alert leaves out error.message
SettingsSubmitDone_NoText(r) ==
    /\ r.kind = "settings"
    /\ r.st # "sent"
    /\ alerts' = IF r.st = "ok" THEN showAlert(alerts, "success", UpdatedMsg(r))
                 ELSE showAlert(alerts, "danger", <<FailedMsg(r)[1]>>)
    /\ dashReqs' = Remove(dashReqs, r)
    /\ UNCHANGED <<testVars, logVars, currentModal, modalShown, modalForm, actionsTable,
                   eventsTable, actionSelect, eventSelect, dashCount>>

\* rest of a settings submit handler after `await fetch(...)`
SettingsSubmitDone(r) ==
    /\ r.kind = "settings"
    /\ r.st # "sent"
    /\ alerts' = IF r.st = "ok" THEN showAlert(alerts, "success", UpdatedMsg(r))
                 ELSE showAlert(alerts, "danger", FailedMsg(r))
    /\ dashReqs' = Remove(dashReqs, r)
    /\ UNCHANGED <<testVars, logVars, currentModal, modalShown, modalForm, actionsTable,
                   eventsTable, actionSelect, eventSelect, dashCount>>

\* rest of refreshComponents() after `await Promise.all(...)`, the two
\* fetches having settled with a and e
refreshComponents(r, a, e) ==
    /\ r.kind = "refresh"
    /\ dashReqs' = Remove(dashReqs, r)
    /\ LET ua == updateActionsTable(a)
           ue == updateEventsTable(e)
       IN IF Rejected(a) \/ Rejected(e)
          THEN /\ alerts' = showAlert(alerts, "danger", <<"Error refreshing components">>)
               /\ UNCHANGED <<actionsTable, eventsTable>>
          ELSE /\ actionsTable' = ua.rows
               /\ IF ua.threw
                  THEN /\ alerts' = showAlert(alerts, "danger", <<"Error refreshing components">>)
                       /\ UNCHANGED eventsTable
                  ELSE /\ eventsTable' = ue.rows
                       /\ alerts' = IF ue.threw
                                    THEN showAlert(alerts, "danger", <<"Error refreshing components">>)
                                    ELSE alerts
    /\ UNCHANGED <<testVars, logVars, currentModal, modalShown, modalForm, actionSelect,
                   eventSelect, dashCount>>

\* option values after `select.empty().append(placeholder)` and forEach
\* up to the element, if any, on which the callback throws
Options(body, throws) ==
    IF body.kind # "array" THEN Placeholder
    ELSE Placeholder \o [i \in 1..(FirstBad(throws) - 1) |-> body.items[i].name]

\* `action.name` throws on no element of the model
NoThrow(items) == [i \in 1..Len(items) |-> FALSE]

\* rest of loadComponents() after `await Promise.all(...)`; the selects are
\* in the document only while the link form is
loadComponents(r, a, e) ==
    /\ r.kind = "load"
    /\ dashReqs' = Remove(dashReqs, r)
    /\ LET aThrew == a.kind # "array"
           eThrew == e.kind # "array"
                       \/ FirstBad(IsNull(e.items)) <= Len(e.items)
           inDoc == modalForm = "linkForm"
       IN IF Rejected(a) \/ Rejected(e)
          THEN /\ alerts' = showAlert(alerts, "danger", <<"Error loading components">>)
               /\ UNCHANGED <<actionSelect, eventSelect>>
          ELSE /\ actionSelect' = IF inDoc THEN Options(a, NoThrow(a.items)) ELSE actionSelect
               /\ eventSelect' = IF ~inDoc THEN eventSelect
                                 ELSE IF aThrew THEN Placeholder
                                 ELSE Options(e, IsNull(e.items))
               /\ alerts' = IF aThrew \/ eThrew
                            THEN showAlert(alerts, "danger", <<"Error loading components">>)
                            ELSE alerts
    /\ UNCHANGED <<testVars, logVars, currentModal, modalShown, modalForm, actionsTable,
                   eventsTable, dashCount>>

\* the network settles a POST
Respond(r) ==
    \/ RespondPost(r, "ok", "")
    \/ \E t \in ErrorTexts : RespondPost(r, "http", t)
    \/ RespondPost(r, "neterr", "Failed to fetch")

\* the periodic refresh, common to both dashboard specifications
NextRefresh ==
    \/ RefreshTick
    \/ \E r \in BagToSet(dashReqs), a \in Bodies(ActionArrays), e \in Bodies(EventArrays) :
          refreshComponents(r, a, e)

\* the component registry: modal forms, dropdowns and tables
NextRegistry ==
    \/ \E f \in {"createActionForm", "createEventForm"} : OpenCreate(f)
    \/ linkActionEvent
    \/ \E n \in ActionNames : SubmitCreate("createActionForm", n)
    \/ \E n \in EventNames : SubmitCreate("createEventForm", n)
    \/ \E i \in 1..Len(actionSelect), j \in 1..Len(eventSelect) : SubmitLink(i, j)
    \/ \E r \in BagToSet(dashReqs) : Respond(r)
    \/ \E r \in BagToSet(dashReqs) : ModalSubmitDone(r)
    \/ \E r \in BagToSet(dashReqs), a \in Bodies(ActionArrays), e \in Bodies(EventArrays) :
          loadComponents(r, a, e)
    \/ NextRefresh

\* the settings forms next to the periodic refresh
NextSettings ==
    \/ \E f \in {"apiForm", "riskForm"} : SubmitSettings(f)
    \/ \E r \in BagToSet(dashReqs) : Respond(r)
    \/ \E r \in BagToSet(dashReqs) : SettingsSubmitDone(r)
    \/ NextRefresh

\* the dashboard next to the incremental poller
InitDashboard == Init /\ variant = "incr"

SpecRegistry == InitDashboard /\ [][NextRegistry]_vars

SpecSettings == InitDashboard /\ [][NextSettings]_vars

\* ----------------------------------------------------- test_webhook.ps1
\* Write-Host "Testing ..." and the hashtable piped to ConvertTo-Json
WriteHostAndBuild ==
    /\ pc < End
    /\ Script[pc].op = "build"
    /\ host' = Append(host, Script[pc].line)
    /\ pc' = pc + 1
    /\ UNCHANGED <<logVars, alerts, dashVars, waiting, posted, results, received, slept>>

\* Invoke-RestMethod -Method Post: the request goes out
InvokeSend ==
    /\ pc < End
    /\ Script[pc].op = "invoke"
    /\ ~waiting
    /\ waiting' = TRUE
    /\ posted' = Append(posted, Script[pc].body)
    /\ UNCHANGED <<logVars, alerts, dashVars, pc, results, received, host, slept>>

\* the request reaches the webhook endpoint
WebhookReceive ==
    /\ waiting
    /\ Len(received) < Len(posted)
    /\ received' = Append(received, posted[Len(posted)])
    /\ UNCHANGED <<logVars, alerts, dashVars, pc, waiting, posted, results, host, slept>>

\* an Invoke-RestMethod that ends the script when the call fails
InvokeReturn_Stop(res) ==
    /\ waiting
    /\ res \in {"ok", "http"} => Len(received) = Len(posted)
    /\ waiting' = FALSE
    /\ results' = Append(results, res)
    /\ host' = Append(host, IF res = "ok" THEN "response" ELSE "Invoke-RestMethod : error")
    /\ pc' = IF res = "ok" THEN pc + 1 ELSE End
    /\ UNCHANGED <<logVars, alerts, dashVars, posted, received, slept>>

\* Invoke-RestMethod returns: the response is written out, or (non-2xx
\* status, no connection) an error record is; the error ends this statement
\* only, the script has no try/catch and sets no $ErrorActionPreference
InvokeReturn(res) ==
    /\ waiting
    /\ res \in {"ok", "http"} => Len(received) = Len(posted)
    /\ waiting' = FALSE
    /\ results' = Append(results, res)
    /\ host' = Append(host, IF res = "ok" THEN "response" ELSE "Invoke-RestMethod : error")
    /\ pc' = pc + 1
    /\ UNCHANGED <<logVars, alerts, dashVars, posted, received, slept>>

\* Start-Sleep -Seconds 2
StartSleep ==
    /\ pc < End
    /\ Script[pc].op = "sleep"
    /\ slept' = slept + SleepSeconds
    /\ pc' = pc + 1
    /\ UNCHANGED <<logVars, alerts, dashVars, waiting, posted, results, received, host>>

NextTester ==
    \/ WriteHostAndBuild
    \/ InvokeSend
    \/ WebhookReceive
    \/ \E res \in {"ok", "http", "noconn"} : InvokeReturn(res)
    \/ StartSleep

SpecTester == Init /\ [][NextTester]_vars

\* ------------------------------------------------- dashboard properties
RefreshAlert == [type |-> "danger", msg |-> <<"Error refreshing components">>]
RefreshFetch == Fetch("refresh", "none", <<>>)

\* the handler that awaits fetch operation r takes this step
Done(r) == CopiesIn(r, dashReqs') = CopiesIn(r, dashReqs) - 1

\* message m carries text t
Carries(m, t) == \E i \in 1..Len(m) : m[i] = t

\* C4: a refreshComponents() that fails, that is, that ends with the alert
\* 'Error refreshing components', leaves both tables as they were.
C4_RefreshAtomic ==
    [][alerts' = Append(alerts, RefreshAlert) =>
          /\ actionsTable' = actionsTable
          /\ eventsTable' = eventsTable]_vars

\* C6: a modal form whose POST returned 2xx shows a success alert (with the
\* submitted name for the create forms), issues one registry re-fetch and
\* closes the modal; one whose POST failed shows one danger alert carrying
\* the error text, issues no re-fetch and leaves the modal as it is.
C6_MutationThenRefetch ==
    [][\A r \in BagToSet(dashReqs) : (r.kind = "post" /\ r.st # "sent" /\ Done(r)) =>
          /\ Len(alerts') = Len(alerts) + 1
          /\ SubSeq(alerts', 1, Len(alerts)) = alerts
          /\ LET al == alerts'[Len(alerts')]
                 refetches == CopiesIn(RefreshFetch, dashReqs')
                                - CopiesIn(RefreshFetch, dashReqs)
             IN IF r.st = "ok"
                THEN /\ al.type = "success"
                     /\ r.form # "linkForm" => Carries(al.msg, r.arg[1])
                     /\ refetches = 1
                     /\ modalShown' = FALSE
                ELSE /\ al.type = "danger"
                     /\ Carries(al.msg, r.text)
                     /\ refetches = 0
                     /\ modalShown' = modalShown]_vars

\* the action form has been answered with 2xx: alert, re-fetch, modal closed
C6_Witness ==
    /\ alerts # <<>>
    /\ alerts[Len(alerts)] =
          [type |-> "success", msg |-> <<"Action ", "MyAction", " created successfully!">>]
    /\ ~modalShown
    /\ BagIn(RefreshFetch, dashReqs)

\* C7: a settings submit ends with exactly one alert, success on 2xx and
\* otherwise danger with the error text in it, and changes nothing else on
\* the page.
C7_SettingsOneAlert ==
    [][\A r \in BagToSet(dashReqs) : (r.kind = "settings" /\ r.st # "sent" /\ Done(r)) =>
          /\ Len(alerts') = Len(alerts) + 1
          /\ SubSeq(alerts', 1, Len(alerts)) = alerts
          /\ LET al == alerts'[Len(alerts')]
             IN IF r.st = "ok" THEN al.type = "success"
                ELSE al.type = "danger" /\ Carries(al.msg, r.text)
          /\ dashReqs' = Remove(dashReqs, r)
          /\ UNCHANGED <<actionsTable, eventsTable, actionSelect, eventSelect,
                         currentModal, modalShown, modalForm, logContainer,
                         lastLogTimestamp>>]_vars

\* the Binance form has been answered HTTP 400 'Invalid API key' on a page
\* whose tables are filled
C7_Witness ==
    /\ actionsTable # <<>>
    /\ eventsTable # <<>>
    /\ alerts # <<>>
    /\ alerts[Len(alerts)] =
          [type |-> "danger", msg |-> <<"Error updating Binance settings: ", "Invalid API key">>]

\* --------------------------------------------------- tester properties
AllOrders == <<buyOrder, sellOrder, sltpOrder>>

\* C8 as stated: after a failed POST no later payload is posted.
C8_StopsOnFailure ==
    \A i \in 1..Len(results) : results[i] # "ok" => Len(posted) <= i

\* C8 amended: the payloads go out in the order buy, sell, buy with SL/TP,
\* each with the shared secret in `key` and a pause before each one after
\* the first; a failed POST is only reported, so a run that has ended has
\* posted all three.
C8_PostsAllInOrder ==
    /\ Len(posted) <= Len(AllOrders)
    /\ \A i \in 1..Len(posted) : posted[i] = AllOrders[i] /\ posted[i].key = WEBHOOK_KEY
    /\ slept >= SleepSeconds * (Len(posted) - 1)
    /\ pc = End => Len(posted) = Len(AllOrders) /\ Len(results) = Len(AllOrders)

\* the first POST failed and the run ended with all three posted
C8_Witness ==
    /\ pc = End
    /\ results[1] # "ok"
    /\ posted = AllOrders

====
